---- MODULE Spec2Model ----
(***************************************************************************)
(* The cellular automaton of CA_Model_Code.py: for every predictor         *)
(* configuration (the Null configuration first), six five-year iterations  *)
(* that score the grid cells, sort the cells without a wind farm by that   *)
(* score, convert the first gridCellsChanged of them and update the        *)
(* neighborhood effect factors around the converted cells.                 *)
(*                                                                         *)
(* Real numbers are exact fractions [num, den]; coefficients are fixed     *)
(* point numbers in units of 1/CoefUnit.  The user's answers "Y"/"N" keep  *)
(* the meaning they have in the source: ConstYesNo = "Y" means that the    *)
(* user switched the constraints OFF, NeighYesNo = "Y" that the user       *)
(* switched the neighborhood effects OFF.                                  *)
(***************************************************************************)
EXTENDS Integers, Sequences, FiniteSets, TLC

VARIABLES ConstYesNo, NeighYesNo, neighborhoodSize, gridCellsChanged,
          constraintYesOrNo, preparedSurface,
          Wind_Turb, Constraint, Neighborhood, dfArray,
          interceptList, g, f, pc, count, Coeff_Change, dfCoeffs, Probab,
          Probab_f, Wind_Turb_Fut, Neighb_Update, abortScript,
          CountNull, Count, qadiIndex,
          dfCoefficientsFull, coefficientChangesFull, percent

vars == <<ConstYesNo, NeighYesNo, neighborhoodSize, gridCellsChanged,
          constraintYesOrNo, preparedSurface,
          Wind_Turb, Constraint, Neighborhood, dfArray,
          interceptList, g, f, pc, count, Coeff_Change, dfCoeffs, Probab,
          Probab_f, Wind_Turb_Fut, Neighb_Update, abortScript,
          CountNull, Count, qadiIndex,
          dfCoefficientsFull, coefficientChangesFull, percent>>

(* The lists of the disagreement table and its index *)
tables == <<CountNull, Count, qadiIndex>>

(* The fitted coefficient table of a configuration, the percent changes   *)
(* of its coefficients and the user's answers in the CUSTOM scenario       *)
scenario == <<dfCoefficientsFull, coefficientChangesFull, percent>>

inputs == <<ConstYesNo, NeighYesNo, neighborhoodSize, gridCellsChanged,
            constraintYesOrNo, preparedSurface,
            Wind_Turb, Constraint, Neighborhood, dfArray>>

---------------------------------------------------------------------------
(* Bounds of the model *)

NumCells == 3
MaxQuota == 2
NumConfigs == 2
(* Grid cells of the disagreement table taken on its own *)
NumTableCells == 7
(* Largest fitted coefficient, in absolute value, of the coefficient       *)
(* iteration taken on its own                                              *)
MaxCoefficient == 5

(* The hexagonal neighborhood ranges the user may enter *)
Rings == {1, 2}

Cells == 1..NumCells

(* The six projected years, and the text written to Wind_Turb_Fut *)
timeSteps == <<"2025", "2030", "2035", "2040", "2045", "2050">>
Label(t) == <<"Y (2025)", "Y (2030)", "Y (2035)", "Y (2040)", "Y (2045)", "Y (2050)">>[t]
Labels == {Label(t) : t \in 1..Len(timeSteps)}

---------------------------------------------------------------------------
(* Exact fractions *)

Abs(x) == IF x < 0 THEN -x ELSE x
Min(a, b) == IF a < b THEN a ELSE b

RECURSIVE GCD(_, _)
GCD(a, b) == IF b = 0 THEN a ELSE GCD(b, a % b)

Frac(n, d) == LET k == GCD(Abs(n), d) IN [num |-> n \div k, den |-> d \div k]
Times(a, b) == Frac(a.num * b.num, a.den * b.den)
Less(a, b) == a.num * b.den < b.num * a.den
Zero == [num |-> 0, den |-> 1]
(* A field that holds no value yet *)
None == [num |-> 0, den |-> 0]

---------------------------------------------------------------------------
(* The gridded surface.  Cell c lies at Pos(c) on a line; the last cell   *)
(* lies one cell further away, like a cell on a small island.              *)

Pos(c) == IF c = NumCells THEN c + 1 ELSE c

(* SelectLayerByLocation("HAVE_THEIR_CENTER_IN", cell c, distance *      *)
(* neighborhoodSize) applied to the cells of layer: the cells of layer    *)
(* whose centre lies within the search distance of c, c itself included.  *)
SelectLayerByLocation(layer, c) ==
    {d \in layer : Abs(Pos(d) - Pos(c)) <= neighborhoodSize}

(* '"Y" in row[0]' / "Wind_Turb_Fut LIKE '%Y%'" *)
HasFarm(txt) == txt # "N"

(* Mutation: the central grid cell is included in the sum of wind farms   *)
neighborhoodEffect_CountSelf(gridCell, turb, size) ==
    LET adjacent == {d \in Cells : Abs(Pos(d) - Pos(gridCell)) <= size}
        totalNeighbors == Cardinality(adjacent) - 1
        windFarmCount == Cardinality({d \in adjacent : turb[d] = "Y"})
    IN  IF totalNeighbors > 0 THEN Frac(windFarmCount, totalNeighbors)
        ELSE Zero

(* ConstraintNeighborhood.neighborhoodEffects: the factor of gridCell     *)
(* before the first iteration, from the existing wind farms               *)
neighborhoodEffect(gridCell, turb, size) ==
    LET adjacent == {d \in Cells : Abs(Pos(d) - Pos(gridCell)) <= size}
        totalNeighbors == Cardinality(adjacent) - 1
        windFarmCount ==
            Cardinality({d \in adjacent : turb[d] = "Y" /\ d # gridCell})
    IN  IF totalNeighbors > 0 THEN Frac(windFarmCount, totalNeighbors)
        ELSE Zero

---------------------------------------------------------------------------
(* The constraints.  Of the eighteen constraints the model keeps one of   *)
(* each kind: the distance to the nearest airport (a minimum), the         *)
(* distance to the nearest major road (a minimum and a maximum on one      *)
(* field) and the presence of a military base (a flag).                    *)

(* The values of the default constraints, in meters *)
airportConstraint_Value == 2500
roadMinConstraint_Value == 500
roadMaxConstraint_Value == 10000

(* The constraints all in use: the default constraints *)
defaultConstraints ==
    [airport |-> "Y", roadMin |-> "Y", roadMax |-> "Y", milit |-> "Y"]

(* The fields passed to the update cursor: one entry for each constraint  *)
(* in use, the field "Constraint" last                                     *)
cursorList(yesOrNo) ==
    (IF yesOrNo.airport = "Y" THEN <<"Near_Air">> ELSE <<>>)
    \o (IF yesOrNo.roadMin = "Y" THEN <<"Near_Roads">> ELSE <<>>)
    \o (IF yesOrNo.roadMax = "Y" THEN <<"Near_Roads">> ELSE <<>>)
    \o (IF yesOrNo.milit = "Y" THEN <<"Military">> ELSE <<>>)
    \o <<"Constraint">>

(* Mutation: a value equal to the threshold does not violate a constraint *)
constrainedRow_Strict(row, yesOrNo) ==
    LET fields == cursorList(yesOrNo)
        violated ==
            \E i \in 1..Len(fields) :
                \/ fields[i] = "Near_Air" /\ row.Near_Air < airportConstraint_Value
                \/ fields[i] = "Near_Roads" /\ yesOrNo.roadMin = "Y"
                      /\ row.Near_Roads < roadMinConstraint_Value
                \/ fields[i] = "Near_Roads" /\ yesOrNo.roadMax = "Y"
                      /\ row.Near_Roads > roadMaxConstraint_Value
                \/ fields[i] = "Military" /\ row.Military = "Y"
    IN  IF violated THEN 0 ELSE 1

(* Mutation: the constraints on the road distance are applied whether in  *)
(* use or not                                                              *)
constrainedRow_AllRoads(row, yesOrNo) ==
    LET fields == cursorList(yesOrNo)
        violated ==
            \/ \E i \in 1..Len(fields) :
                  \/ fields[i] = "Near_Air" /\ row.Near_Air <= airportConstraint_Value
                  \/ fields[i] = "Military" /\ row.Military = "Y"
            \/ row.Near_Roads <= roadMinConstraint_Value
            \/ row.Near_Roads >= roadMaxConstraint_Value
    IN  IF violated THEN 0 ELSE 1

(* The body of constrainedYesOrNo for one row of the cursor: the value    *)
(* left in the field "Constraint", which is empty before                   *)
constrainedRow(row, yesOrNo) ==
    LET fields == cursorList(yesOrNo)
        violated ==
            \E i \in 1..Len(fields) :
                \/ fields[i] = "Near_Air" /\ row.Near_Air <= airportConstraint_Value
                \/ fields[i] = "Near_Roads" /\ yesOrNo.roadMin = "Y"
                      /\ row.Near_Roads <= roadMinConstraint_Value
                \/ fields[i] = "Near_Roads" /\ yesOrNo.roadMax = "Y"
                      /\ row.Near_Roads >= roadMaxConstraint_Value
                \/ fields[i] = "Military" /\ row.Military = "Y"
    IN  IF violated THEN 0 ELSE 1

(* A grid cell that violates no constraint, and one on a military base *)
clearRow == [Near_Air |-> airportConstraint_Value + 1,
             Near_Roads |-> roadMinConstraint_Value + 1,
             Military |-> "N"]
militaryRow == [clearRow EXCEPT !.Military = "Y"]

---------------------------------------------------------------------------
(* Coefficient iteration and probability *)

(* Fixed point unit of the coefficients: 2^6, so that six changes by a    *)
(* multiple of 50 percent are exact                                        *)
CoefUnit == 2 * 2 * 2 * 2 * 2 * 2

(* The fitted model of configuration k (1..NumConfigs): one predictor     *)
FittedCoefficient(k) == (IF k % 2 = 1 THEN 1 ELSE -1) * CoefUnit
FittedIntercept(k) == 0 - k

(* The scenario: the percent change of the predictor's coefficient in    *)
(* configuration k                                                        *)
coefficientChanges(k) == IF k % 2 = 1 THEN 50 ELSE -50

(* Mutation: the change is taken of the coefficient, not of its absolute  *)
(* value                                                                   *)
newCoefficient_NoAbs(coeff, change) ==
    IF change > 0 THEN coeff + ((coeff * change) \div 100)
    ELSE IF change < 0 THEN coeff - ((coeff * change) \div 100)
    ELSE coeff

(* Mutation: the signed change is subtracted when it is negative *)
newCoefficient_Signed(coeff, change) ==
    IF change > 0 THEN coeff + Abs((coeff * change) \div 100)
    ELSE IF change < 0 THEN coeff - ((Abs(coeff) * change) \div 100)
    ELSE coeff

(* Mutation: every update changes the coefficient, by one percent when    *)
(* the user set no change                                                  *)
newCoefficient_Drift(coeff, change) ==
    IF change > 0 THEN coeff + Abs((coeff * change) \div 100)
    ELSE IF change < 0 THEN coeff - Abs((coeff * change) \div 100)
    ELSE coeff + Abs(coeff \div 100)

(* One five-year update of a coefficient *)
newCoefficient(coeff, change) ==
    IF change > 0 THEN coeff + Abs((coeff * change) \div 100)
    ELSE IF change < 0 THEN coeff - Abs((coeff * change) \div 100)
    ELSE coeff

(* The columns Coeff_2020 .. Coeff_2050 of dfCoeffs, as a sequence of 7 *)
RECURSIVE CoeffColumns(_, _, _)
CoeffColumns(coeff, change, n) ==
    IF n = 0 THEN <<coeff>>
    ELSE LET prev == CoeffColumns(coeff, change, n - 1)
         IN  Append(prev, newCoefficient(prev[Len(prev)], change))

(* coefficientList[g], coeffChangeList[g]; g = 0 is the Null configuration *)
coefficientList(k) == IF k = 0 THEN 0 ELSE FittedCoefficient(k)
coeffChangeList(k) == IF k = 0 THEN 0 ELSE coefficientChanges(k)

(* Mutation: the Null configuration borrows no intercept *)
interceptInsert_Nothing(list, k) == list

(* interceptList.insert(0, interceptList[g]) at the Null configuration;   *)
(* a Python list index i is the sequence index i + 1                       *)
interceptInsert(list, k) ==
    IF k = 0 THEN <<list[k + 1]>> \o list ELSE list

(* 1/(1+e**-z), rounded to hundredths, z the floor of the fixed point sum *)
Logistic(zfix) ==
    LET z == zfix \div CoefUnit
        n == IF z <= -5 THEN 1 ELSE IF z = -4 THEN 2 ELSE IF z = -3 THEN 5
             ELSE IF z = -2 THEN 12 ELSE IF z = -1 THEN 27 ELSE IF z = 0 THEN 50
             ELSE IF z = 1 THEN 73 ELSE IF z = 2 THEN 88 ELSE IF z = 3 THEN 95
             ELSE IF z = 4 THEN 98 ELSE 99
    IN  Frac(n, 100)

(* prob of one cell: the Null configuration runs on a column of zeros *)
prob(intercept, coeff, x, k) ==
    Logistic(intercept * CoefUnit + coeff * (IF k = 0 THEN 0 ELSE x))

---------------------------------------------------------------------------
(* The composite score written to the field Probab_<year> *)

(* Mutation: the rule table of the specification, in which both on means  *)
(* the probability alone and both off means the product of all three       *)
fieldExpression_Swapped(t, cnt, cYN, nYN, constraint, neighborhood, neighbUpdate, probab) ==
    IF timeSteps[t] = "2025" /\ cnt < 2
    THEN IF cYN = "Y" THEN probab ELSE Times(Frac(constraint, 1), probab)
    ELSE LET nb == IF timeSteps[t] = "2025" THEN neighborhood ELSE neighbUpdate
         IN  IF nYN = "Y" /\ cYN = "N" THEN Times(Frac(constraint, 1), probab)
             ELSE IF nYN = "N" /\ cYN = "Y" THEN Times(nb, probab)
             ELSE IF nYN = "N" /\ cYN = "N" THEN probab
             ELSE Times(Frac(constraint, 1), probab)

(* Mutation: the two one-sided expressions take each other's place *)
fieldExpression_Crossed(t, cnt, cYN, nYN, constraint, neighborhood, neighbUpdate, probab) ==
    IF timeSteps[t] = "2025" /\ cnt < 2
    THEN IF cYN = "Y" THEN probab ELSE Times(Frac(constraint, 1), probab)
    ELSE LET nb == IF timeSteps[t] = "2025" THEN neighborhood ELSE neighbUpdate
         IN  IF nYN = "Y" /\ cYN = "N" THEN probab
             ELSE IF nYN = "N" /\ cYN = "Y" THEN Times(Frac(constraint, 1), probab)
             ELSE IF nYN = "Y" /\ cYN = "Y" THEN probab
             ELSE Times(Times(Frac(constraint, 1), nb), probab)

(* Mutation: the first iteration includes the neighborhood effect factor  *)
(* whatever the number of wind farms                                       *)
fieldExpression_NoColdStart(t, cnt, cYN, nYN, constraint, neighborhood, neighbUpdate, probab) ==
    LET nb == IF timeSteps[t] = "2025" THEN neighborhood ELSE neighbUpdate
    IN  IF nYN = "Y" /\ cYN = "N" THEN Times(Frac(constraint, 1), probab)
        ELSE IF nYN = "N" /\ cYN = "Y" THEN Times(nb, probab)
        ELSE IF nYN = "Y" /\ cYN = "Y" THEN probab
        ELSE Times(Times(Frac(constraint, 1), nb), probab)

fieldExpression(t, cnt, cYN, nYN, constraint, neighborhood, neighbUpdate, probab) ==
    IF timeSteps[t] = "2025" /\ cnt < 2
    THEN IF cYN = "Y" THEN probab ELSE Times(Frac(constraint, 1), probab)
    ELSE LET nb == IF timeSteps[t] = "2025" THEN neighborhood ELSE neighbUpdate
         IN  IF nYN = "Y" /\ cYN = "N" THEN Times(Frac(constraint, 1), probab)
             ELSE IF nYN = "N" /\ cYN = "Y" THEN Times(nb, probab)
             ELSE IF nYN = "Y" /\ cYN = "Y" THEN probab
             ELSE Times(Times(Frac(constraint, 1), nb), probab)

---------------------------------------------------------------------------
(* Sorting and conversion *)

RECURSIVE Perms(_)
Perms(S) ==
    IF S = {} THEN {<<>>}
    ELSE UNION {{<<x>> \o p : p \in Perms(S \ {x})} : x \in S}

(* Mutation: the selection takes every grid cell *)
noFarm_AllCells(fut) == Cells

(* "Wind_Turb_Fut = 'N'": the grid cells that do not contain a wind farm *)
noFarm(fut) == {c \in Cells : fut[c] = "N"}

(* Mutation: "ASCENDING" *)
Sort_management_Ascending(rows, field) ==
    {s \in Perms(rows) :
        \A i \in 1..(Len(s) - 1) : ~Less(field[s[i + 1]], field[s[i]])}

(* Sort_management(noFarm, [[fieldName, "DESCENDING"]]): every order of   *)
(* the rows in which the field never increases; the order of rows with    *)
(* equal values is not specified                                           *)
Sort_management(rows, field) ==
    {s \in Perms(rows) :
        \A i \in 1..(Len(s) - 1) : ~Less(field[s[i]], field[s[i + 1]])}

(* Mutation: "OBJECTID <= gridCellsChanged + 1" *)
cellsToConvert_OneMore(sortedCells, quota) ==
    SubSeq(sortedCells, 1,
           IF Len(sortedCells) < quota + 1 THEN Len(sortedCells) ELSE quota + 1)

(* Mutation: "OBJECTID < gridCellsChanged" *)
cellsToConvert_OneLess(sortedCells, quota) ==
    SubSeq(sortedCells, 1,
           IF Len(sortedCells) < quota - 1 THEN Len(sortedCells) ELSE quota - 1)

(* "OBJECTID <= gridCellsChanged" on the sorted rows *)
cellsToConvert(sortedCells, quota) ==
    SubSeq(sortedCells, 1, IF Len(sortedCells) < quota THEN Len(sortedCells) ELSE quota)

(* Position of the first row of rows that violates a constraint, or 0 *)
FirstConstrained(rows, constraint) ==
    IF \E i \in 1..Len(rows) : constraint[rows[i]] = 0
    THEN CHOOSE i \in 1..Len(rows) :
            /\ constraint[rows[i]] = 0
            /\ \A j \in 1..(i - 1) : constraint[rows[j]] # 0
    ELSE 0

(* Mutation: the loop breaks at a constrained row with the constraints off too *)
cellNoList_AlwaysBreak(rows, cYN, constraint) ==
    LET b == FirstConstrained(rows, constraint)
    IN  IF b = 0 THEN rows ELSE SubSeq(rows, 1, b - 1)

(* Mutation: the loop never breaks *)
cellNoList_NoBreak(rows, cYN, constraint) == rows

(* The cursor over cellsToConvert: the rows that gain a wind farm.  With  *)
(* the constraints on, the loop breaks at the first constrained row.      *)
cellNoList(rows, cYN, constraint) ==
    IF cYN = "N"
    THEN LET b == FirstConstrained(rows, constraint)
         IN  IF b = 0 THEN rows ELSE SubSeq(rows, 1, b - 1)
    ELSE rows

(* Mutation: the constrained row is never noticed *)
abortScriptAfter_Never(rows, cYN, constraint, before) == FALSE

(* Mutation: every iteration reports a constrained row *)
abortScriptAfter_Always(rows, cYN, constraint, before) == TRUE

abortScriptAfter(rows, cYN, constraint, before) ==
    IF cYN = "N" THEN FirstConstrained(rows, constraint) # 0 ELSE before

Range(s) == {s[i] : i \in 1..Len(s)}

---------------------------------------------------------------------------
(* CellularAutomaton.neighborhoodEffects: the update after an iteration.  *)
(* converted is the list of the cells that gained a wind farm in this     *)
(* iteration, in the order of the cursor; fut is Wind_Turb_Fut after the  *)
(* conversion.                                                             *)

(* The layer "adjacent_lyr" around the converted cell c *)
adjacentLyr(c) == SelectLayerByLocation(Cells, c)

(* The neighbors of gridCell, selected within "adjacent_lyr" of c *)
neighborsIn(c, gridCell) == SelectLayerByLocation(adjacentLyr(c), gridCell)

totalNeighborsIn(c, gridCell) == Cardinality(neighborsIn(c, gridCell)) - 1

windFarmCountIn(c, gridCell, fut) ==
    Cardinality({d \in neighborsIn(c, gridCell) : HasFarm(fut[d]) /\ d # gridCell})

(* windFarmCount/totalNeighbors raises ZeroDivisionError *)
ZeroDivision(converted) ==
    \E i \in 1..Len(converted) :
        \E gridCell \in adjacentLyr(converted[i]) :
            totalNeighborsIn(converted[i], gridCell) = 0

(* The entry of neighborhoodList that the last matching j leaves in a row *)
lastEntry(converted, gridCell, fut) ==
    LET hits == {i \in 1..Len(converted) : gridCell \in adjacentLyr(converted[i])}
        j == CHOOSE i \in hits : \A k \in hits : k <= i
    IN  Frac(windFarmCountIn(converted[j], gridCell, fut),
             totalNeighborsIn(converted[j], gridCell))

(* Mutation: a row outside every "adjacent_lyr" is set to 0 *)
updatedNeighb_ResetOthers(converted, fut, neighborhood, neighbUpdate) ==
    [c \in Cells |->
        IF \E i \in 1..Len(converted) : c \in adjacentLyr(converted[i])
        THEN lastEntry(converted, c, fut)
        ELSE Zero]

(* The field Neighb_Update after the update *)
updatedNeighb(converted, fut, neighborhood, neighbUpdate) ==
    [c \in Cells |->
        IF \E i \in 1..Len(converted) : c \in adjacentLyr(converted[i])
        THEN lastEntry(converted, c, fut)
        ELSE IF neighbUpdate[c] = None THEN neighborhood[c]
        ELSE neighbUpdate[c]]

---------------------------------------------------------------------------
(* Quantity and allocation disagreement *)

(* The classifications of the disagreement table, in the order of its     *)
(* rows and columns                                                       *)
classes == <<"N", Label(1), Label(2), Label(3), Label(4), Label(5), Label(6)>>

(* row[1] + ... + row[n] *)
RECURSIVE sumTo(_, _)
sumTo(row, n) == IF n = 0 THEN 0 ELSE row[n] + sumTo(row, n - 1)

(* Mutation: the grid cells that held a wind farm before the run are      *)
(* listed with the grid cells that gained none                            *)
countLists_WithExisting(fut) ==
    [k \in 1..Len(classes) |->
        {c \in DOMAIN fut : fut[c] = classes[k] \/ (k = 1 /\ fut[c] = "Y")}]

(* The seven lists NCount, YCount2025, ..., YCount2050 read from the      *)
(* projected surface: a grid cell labelled "Y" falls in none of them      *)
countLists(fut) ==
    [k \in 1..Len(classes) |-> {c \in DOMAIN fut : fut[c] = classes[k]}]

(* One row listNo, list2025, ..., list2050 of the table: entry j counts   *)
(* the grid cells of one list of the Null configuration that are in the   *)
(* j-th list of the current configuration, the last entry is their sum    *)
listRow(nullList, lists) ==
    LET in(j) == Cardinality({c \in nullList : c \in lists[j]})
        row == <<in(1), in(2), in(3), in(4), in(5), in(6), in(7)>>
    IN  Append(row, sumTo(row, Len(classes)))

(* listNo, list2025, ..., list2050 *)
listRows(nullLists, lists) ==
    <<listRow(nullLists[1], lists), listRow(nullLists[2], lists),
      listRow(nullLists[3], lists), listRow(nullLists[4], lists),
      listRow(nullLists[5], lists), listRow(nullLists[6], lists),
      listRow(nullLists[7], lists)>>

(* Mutation: the total counts the row of the grid cells without a wind    *)
(* farm only                                                              *)
totalCells_NoFarmOnly(rows) == rows[1][Len(classes) + 1]

(* sumNoFarm + sumYes2025 + ... + sumYes2050 *)
totalCells(rows) ==
    sumTo([i \in 1..Len(classes) |-> rows[i][Len(classes) + 1]], Len(classes))

bottomRow(rows) ==
    LET column(j) == sumTo([i \in 1..Len(classes) |-> rows[i][j]], Len(classes))
    IN  <<column(1), column(2), column(3), column(4), column(5), column(6),
          column(7), totalCells(rows)>>

listOfLists(rows) == Append(rows, bottomRow(rows))

(* The list of lists, transposed *)
transList(lol) ==
    LET column(a) == <<lol[1][a], lol[2][a], lol[3][a], lol[4][a],
                       lol[5][a], lol[6][a], lol[7][a], lol[8][a]>>
    IN  <<column(1), column(2), column(3), column(4), column(5), column(6),
          column(7), column(8)>>

(* The disagreements are computed from the bottom row b and the           *)
(* transposed list t.  The source's indices start at 0: bottomRow[k] of   *)
(* the source is b[k + 1] here, transList[k][7] is t[k + 1][8]            *)
quantDis(b, t) ==
    sumTo([k \in 1..Len(classes) |-> Abs(b[k] - t[k][Len(classes) + 1])],
          Len(classes)) \div 2

quantDisStar(t) ==
    LET n == Len(classes)
    IN  Abs(sumTo([a \in 1..(n - 1) |-> sumTo(t[a], n)], n - 1)
            - sumTo([j \in 1..(n - 1) |->
                        sumTo([a \in 1..n |-> t[a][j]], n)], n - 1))

(* Mutation: the diagonal is not taken off the totals *)
absoDis_WithDiagonal(b, t) ==
    sumTo([k \in 1..Len(classes) |->
              2 * Min(b[k], t[k][Len(classes) + 1])], Len(classes)) \div 2

absoDis(b, t) ==
    sumTo([k \in 1..Len(classes) |->
              2 * Min(b[k] - t[k][k], t[k][Len(classes) + 1] - t[k][k])],
          Len(classes)) \div 2

(* The reported disagreements, from quantDis, quantDisStar and absoDis *)
qFinal(Q, QStar) == IF Q # QStar THEN QStar ELSE Q

aFinal(A, Q, QStar) == IF Q # QStar THEN A + Abs(Q - QStar) ELSE A

(* The square of the index np.sqrt((aFinal/totalCells)**2 +               *)
(* (qFinal/totalCells)**2), kept exact                                    *)
qadiIndexSquared(A, Q, T) == Frac(A * A + Q * Q, T * T)

---------------------------------------------------------------------------
(* The program *)

Init ==
    /\ ConstYesNo \in {"Y", "N"}
    /\ NeighYesNo \in {"Y", "N"}
    /\ neighborhoodSize \in (IF NeighYesNo = "N" THEN Rings ELSE {1})
    /\ gridCellsChanged \in 1..MaxQuota
    /\ Wind_Turb \in [Cells -> {"Y", "N"}]
    /\ constraintYesOrNo = defaultConstraints
    /\ preparedSurface \in [Cells -> {clearRow, militaryRow}]
    /\ Constraint = [c \in Cells |->
                        constrainedRow(preparedSurface[c], constraintYesOrNo)]
    /\ Neighborhood =
          IF NeighYesNo = "N"
          THEN [c \in Cells |-> neighborhoodEffect(c, Wind_Turb, neighborhoodSize)]
          ELSE [c \in Cells |-> None]
    /\ dfArray \in [Cells -> {0, 1}]
    /\ interceptList = [k \in 1..NumConfigs |-> FittedIntercept(k)]
    /\ g = 0
    /\ f = 1
    /\ pc = "Start"
    /\ count = 0
    /\ Coeff_Change = 0
    /\ dfCoeffs = <<>>
    /\ Probab = [c \in Cells |-> None]
    /\ Probab_f = [c \in Cells |-> None]
    /\ Wind_Turb_Fut = [c \in Cells |-> "N"]
    /\ Neighb_Update = [c \in Cells |-> None]
    /\ abortScript = FALSE
    /\ CountNull = [k \in 1..Len(classes) |-> {}]
    /\ Count = [k \in 1..Len(classes) |-> {}]
    /\ qadiIndex = None
    /\ dfCoefficientsFull = <<>>
    /\ coefficientChangesFull = <<>>
    /\ percent = <<>>

(* Mutation: the field Wind_Turb_Fut is kept as the run before left it *)
windTurbFutField_Kept(turb, fut) == fut

(* The field Wind_Turb_Fut, deleted, added again and filled from the field *)
(* Wind_Turb row by row                                                    *)
windTurbFutField(turb, fut) == [c \in Cells |-> turb[c]]

(* The head of the loop over the configurations: coefficient iteration,   *)
(* the fields are emptied and refilled, the existing wind farms counted   *)
StartConfiguration ==
    /\ pc = "Start"
    /\ g <= NumConfigs
    /\ interceptList' = interceptInsert(interceptList, g)
    /\ Coeff_Change' = coeffChangeList(g)
    /\ dfCoeffs' = CoeffColumns(coefficientList(g),
                                coeffChangeList(g),
                                Len(timeSteps))
    /\ Wind_Turb_Fut' = windTurbFutField(Wind_Turb, Wind_Turb_Fut)
    /\ count' = Cardinality({c \in Cells : Wind_Turb[c] = "Y"})
    /\ Neighb_Update' = IF NeighYesNo = "N" THEN [c \in Cells |-> None]
                        ELSE Neighb_Update
    /\ abortScript' = FALSE
    /\ f' = 1
    /\ pc' = "Stepping"
    /\ UNCHANGED <<inputs, g, Probab, Probab_f, tables, scenario>>

(* One iteration of the cellular automaton, for the year timeSteps[f] *)
Iterate ==
    /\ pc = "Stepping"
    /\ LET coeff == dfCoeffs[f + 1]
           probabilityList ==
               [c \in Cells |-> prob(interceptList[g + 1], coeff, dfArray[c], g)]
           field ==
               [c \in Cells |->
                   fieldExpression(f, count, ConstYesNo, NeighYesNo, Constraint[c],
                                   Neighborhood[c], Neighb_Update[c],
                                   probabilityList[c])]
       IN  /\ Probab' = probabilityList
           /\ Probab_f' = field
           /\ \E sortedCells \in Sort_management(noFarm(Wind_Turb_Fut), field) :
                LET rows == cellsToConvert(sortedCells, gridCellsChanged)
                    gained == cellNoList(rows, ConstYesNo, Constraint)
                    abort == abortScriptAfter(rows, ConstYesNo, Constraint, abortScript)
                    fut == [c \in Cells |->
                               IF c \in Range(gained) THEN Label(f)
                               ELSE Wind_Turb_Fut[c]]
                    update == timeSteps[f] # "2050" /\ NeighYesNo = "N"
                IN  /\ Wind_Turb_Fut' = fut
                    /\ abortScript' = abort
                    /\ IF update /\ ZeroDivision(gained)
                       THEN /\ pc' = "Crashed"
                            /\ UNCHANGED <<Neighb_Update, f>>
                       ELSE /\ Neighb_Update' =
                                  IF update
                                  THEN updatedNeighb(gained, fut, Neighborhood,
                                                     Neighb_Update)
                                  ELSE Neighb_Update
                            /\ IF ConstYesNo = "N" /\ abort
                               THEN pc' = "TerminatedEarly" /\ f' = f
                               ELSE IF f = Len(timeSteps)
                               THEN pc' = "Completed" /\ f' = f
                               ELSE pc' = "Stepping" /\ f' = f + 1
    /\ UNCHANGED <<inputs, interceptList, g, count, Coeff_Change, dfCoeffs,
                   tables, scenario>>

(* The disagreement table of the current configuration against the Null   *)
(* configuration; the index divides by totalCells                         *)
disagreementTable ==
    /\ Count' = countLists(Wind_Turb_Fut)
    /\ \E rows \in {listRows(CountNull, countLists(Wind_Turb_Fut))} :
       \E b \in {bottomRow(rows)} :
       \E lol \in {listOfLists(rows)} :
       \E t \in {transList(lol)} :
       \E Q \in {quantDis(b, t)} :
       \E QStar \in {quantDisStar(t)} :
       \E A \in {absoDis(b, t)} :
       \E T \in {totalCells(rows)} :
          qadiIndex' = IF T = 0 THEN qadiIndex
                       ELSE qadiIndexSquared(aFinal(A, Q, QStar),
                                             qFinal(Q, QStar), T)
    /\ UNCHANGED CountNull

(* The end of one configuration's run: the lists of the Null              *)
(* configuration or the disagreement table, then the next configuration,  *)
(* if any                                                                 *)
FinishConfiguration ==
    /\ pc \in {"Completed", "TerminatedEarly"}
    /\ IF g = 0
       THEN /\ CountNull' = countLists(Wind_Turb_Fut)
            /\ UNCHANGED <<Count, qadiIndex>>
       ELSE disagreementTable
    /\ IF g # 0 /\ \E rows \in {listRows(CountNull, Count')} : totalCells(rows) = 0
       THEN pc' = "NoIndex" /\ UNCHANGED g
       ELSE /\ g' = g + 1
            /\ pc' = IF g + 1 > NumConfigs THEN "Done" ELSE "Start"
    /\ UNCHANGED <<inputs, interceptList, f, count, Coeff_Change, dfCoeffs,
                   Probab, Probab_f, Wind_Turb_Fut, Neighb_Update, abortScript,
                   scenario>>

Next == StartConfiguration \/ Iterate \/ FinishConfiguration

Spec == Init /\ [][Next]_vars

---------------------------------------------------------------------------
(* The coefficient iteration on its own: the loop "for h in range(6)"     *)
(* that fills the columns Coeff_2025 .. Coeff_2050 of dfCoeffs, one column *)
(* per step, for one predictor with any fitted coefficient and any of the  *)
(* changes of the predefined scenarios.  Coefficients are in millionths.   *)

CoefMillionth == 1000000

(* The percent changes the predefined scenarios assign, and no change *)
scenarioChanges == {-10, 0, 10}

InitCoefficients ==
    /\ pc = "Coefficients"
    /\ Coeff_Change \in scenarioChanges
    /\ dfCoeffs \in {<<k * CoefMillionth>> :
                        k \in (0 - MaxCoefficient)..MaxCoefficient}
    /\ ConstYesNo = "Y" /\ NeighYesNo = "Y"
    /\ neighborhoodSize = 1
    /\ gridCellsChanged = 1
    /\ Wind_Turb = [c \in Cells |-> "N"]
    /\ constraintYesOrNo = defaultConstraints
    /\ preparedSurface = [c \in Cells |-> clearRow]
    /\ Constraint = [c \in Cells |-> 1]
    /\ Neighborhood = [c \in Cells |-> None]
    /\ dfArray = [c \in Cells |-> 0]
    /\ interceptList = [k \in 1..NumConfigs |-> FittedIntercept(k)]
    /\ g = 1
    /\ f = 1
    /\ count = 0
    /\ Probab = [c \in Cells |-> None]
    /\ Probab_f = [c \in Cells |-> None]
    /\ Wind_Turb_Fut = [c \in Cells |-> "N"]
    /\ Neighb_Update = [c \in Cells |-> None]
    /\ abortScript = FALSE
    /\ CountNull = [k \in 1..Len(classes) |-> {}]
    /\ Count = [k \in 1..Len(classes) |-> {}]
    /\ qadiIndex = None
    /\ dfCoefficientsFull = <<>>
    /\ coefficientChangesFull = <<>>
    /\ percent = <<>>

(* One pass of the loop over h: the next column of dfCoeffs *)
CoefficientIteration ==
    /\ pc = "Coefficients"
    /\ Len(dfCoeffs) <= Len(timeSteps)
    /\ dfCoeffs' = Append(dfCoeffs,
                          newCoefficient(dfCoeffs[Len(dfCoeffs)], Coeff_Change))
    /\ UNCHANGED <<inputs, interceptList, g, f, pc, count, Coeff_Change, Probab,
                   Probab_f, Wind_Turb_Fut, Neighb_Update, abortScript, tables, scenario>>

CoefficientSpec == InitCoefficients /\ [][CoefficientIteration]_vars

---------------------------------------------------------------------------
(* The constraints on their own: constrainedYesOrNo fills the empty field *)
(* "Constraint" of the prepared surface, for any choice of constraints in  *)
(* use and for grid cells at, just inside and just outside each threshold. *)

(* The rows of the prepared surface: the clear row, the rows that differ   *)
(* from it in one field, and a row that violates every constraint          *)
surfaceRows ==
    {[clearRow EXCEPT !.Near_Air = v] :
        v \in {airportConstraint_Value - 1, airportConstraint_Value}}
    \cup {[clearRow EXCEPT !.Near_Roads = v] :
             v \in {roadMinConstraint_Value - 1, roadMinConstraint_Value,
                    roadMaxConstraint_Value - 1, roadMaxConstraint_Value,
                    roadMaxConstraint_Value + 1}}
    \cup {clearRow, militaryRow,
          [Near_Air |-> airportConstraint_Value - 1,
           Near_Roads |-> roadMinConstraint_Value - 1,
           Military |-> "Y"]}

InitConstraints ==
    /\ pc = "Constraints"
    /\ constraintYesOrNo \in
          [airport : {"Y", "N"}, roadMin : {"Y", "N"}, roadMax : {"Y", "N"},
           milit : {"Y", "N"}]
    /\ preparedSurface \in [Cells -> surfaceRows]
    /\ Constraint = [c \in Cells |-> None]
    /\ ConstYesNo = "N" /\ NeighYesNo = "Y"
    /\ neighborhoodSize = 1
    /\ gridCellsChanged = 1
    /\ Wind_Turb = [c \in Cells |-> "N"]
    /\ Neighborhood = [c \in Cells |-> None]
    /\ dfArray = [c \in Cells |-> 0]
    /\ interceptList = [k \in 1..NumConfigs |-> FittedIntercept(k)]
    /\ g = 0
    /\ f = 1
    /\ count = 0
    /\ Coeff_Change = 0
    /\ dfCoeffs = <<>>
    /\ Probab = [c \in Cells |-> None]
    /\ Probab_f = [c \in Cells |-> None]
    /\ Wind_Turb_Fut = [c \in Cells |-> "N"]
    /\ Neighb_Update = [c \in Cells |-> None]
    /\ abortScript = FALSE
    /\ CountNull = [k \in 1..Len(classes) |-> {}]
    /\ Count = [k \in 1..Len(classes) |-> {}]
    /\ qadiIndex = None
    /\ dfCoefficientsFull = <<>>
    /\ coefficientChangesFull = <<>>
    /\ percent = <<>>

(* The update cursor over all rows of the prepared surface *)
constrainedYesOrNo ==
    /\ pc = "Constraints"
    /\ Constraint' = [c \in Cells |->
                         constrainedRow(preparedSurface[c], constraintYesOrNo)]
    /\ pc' = "Constrained"
    /\ UNCHANGED <<ConstYesNo, NeighYesNo, neighborhoodSize, gridCellsChanged,
                   constraintYesOrNo, preparedSurface, Wind_Turb, Neighborhood,
                   dfArray, interceptList, g, f, count, Coeff_Change, dfCoeffs,
                   Probab, Probab_f, Wind_Turb_Fut, Neighb_Update, abortScript,
                   tables, scenario>>

ConstraintSpec == InitConstraints /\ [][constrainedYesOrNo]_vars

---------------------------------------------------------------------------
(* The disagreement table on its own, on a grid large enough for wind      *)
(* farms to be gained in "2050".  A run gives gridCellsChanged grid cells  *)
(* a wind farm in every iteration until it ends, so a projection is        *)
(* described by the order and the number of the grid cells that gained a   *)
(* wind farm; the grid cells are numbered in the order of the Null         *)
(* configuration's run.                                                    *)

TableCells == 1..NumTableCells

(* The sequences of n different grid cells of S *)
RECURSIVE orders(_, _)
orders(S, n) ==
    IF n = 0 THEN {<<>>}
    ELSE UNION {{<<x>> \o p : p \in orders(S \ {x}, n - 1)} : x \in S}

projection(order, gained, quota) ==
    [c \in TableCells |->
        IF \E i \in 1..gained : order[i] = c
        THEN Label(((CHOOSE i \in 1..gained : order[i] = c) - 1) \div quota + 1)
        ELSE "N"]

InitTables ==
    /\ pc = "Projected"
    /\ g = 1
    /\ gridCellsChanged \in 1..MaxQuota
    /\ \E gainedNull, gained \in
             0..Min(NumTableCells, Len(timeSteps) * gridCellsChanged) :
       \E order \in orders(TableCells, gained) :
          /\ CountNull = countLists(projection([c \in TableCells |-> c],
                                               gainedNull, gridCellsChanged))
          /\ Wind_Turb_Fut = projection(order, gained, gridCellsChanged)
    /\ Count = [k \in 1..Len(classes) |-> {}]
    /\ qadiIndex = None
    /\ dfCoefficientsFull = <<>>
    /\ coefficientChangesFull = <<>>
    /\ percent = <<>>
    /\ ConstYesNo = "N" /\ NeighYesNo = "N"
    /\ neighborhoodSize = 1
    /\ Wind_Turb = [c \in Cells |-> "N"]
    /\ constraintYesOrNo = defaultConstraints
    /\ preparedSurface = [c \in Cells |-> clearRow]
    /\ Constraint = [c \in Cells |-> 1]
    /\ Neighborhood = [c \in Cells |-> None]
    /\ dfArray = [c \in Cells |-> 0]
    /\ interceptList = [k \in 1..NumConfigs |-> FittedIntercept(k)]
    /\ f = Len(timeSteps)
    /\ count = 0
    /\ Coeff_Change = 0
    /\ dfCoeffs = <<>>
    /\ Probab = [c \in Cells |-> None]
    /\ Probab_f = [c \in Cells |-> None]
    /\ Neighb_Update = [c \in Cells |-> None]
    /\ abortScript = FALSE

tabulate ==
    /\ pc = "Projected"
    /\ disagreementTable
    /\ pc' = "Tabulated"
    /\ UNCHANGED <<inputs, interceptList, g, f, count, Coeff_Change, dfCoeffs,
                   Probab, Probab_f, Wind_Turb_Fut, Neighb_Update, abortScript,
                   scenario>>

TableSpec == InitTables /\ [][tabulate]_vars

---------------------------------------------------------------------------
(* The CUSTOM scenario on its own: the user is asked for a percent change  *)
(* of every predictor of predictorList in turn, the answers are appended   *)
(* to the list of percent changes of a configuration when the predictor's  *)
(* name is in the configuration's fitted coefficient table, and the list   *)
(* becomes the column "Coeff_Change_(%)" beside the rows of that table.    *)
(* Five of the predictors are kept, in the order of the source; the four   *)
(* configurations are treated alike and one is kept.                       *)

predictorList == <<"Historical Landmarks", "Interconnection Policy", "ISOs",
                   "Investment Tax Credits", "Nearest Hospital">>

predictorCodeList == <<"Historical", "Interconn", "ISO_YN", "In_Tax_Cre",
                       "Near_Hosp">>

(* The name Logistic_Regression_Model.py writes in the column Predictors   *)
(* for a predictor code                                                    *)
predictors(code) ==
    CASE code = "Historical" -> "Historical Landmarks"
      [] code = "Interconn" -> "Interconnection Policy"
      [] code = "In_Tax_Cre" -> "Investment Tax Credits"
      [] code = "ISO_YN" -> "ISOs"
      [] code = "Near_Hosp" -> "Nearest_Hospital"

(* The code points of the first three characters of a name, by which       *)
(* strings are compared                                                    *)
codePoints(name) ==
    CASE name = "Historical Landmarks" -> <<72, 105, 115>>
      [] name = "Interconnection Policy" -> <<73, 110, 116>>
      [] name = "Investment Tax Credits" -> <<73, 110, 118>>
      [] name = "ISOs" -> <<73, 83, 79>>
      [] name = "Nearest_Hospital" -> <<78, 101, 97>>

RECURSIVE lexLess(_, _)
lexLess(a, b) ==
    IF b = <<>> THEN FALSE
    ELSE IF a = <<>> THEN TRUE
    ELSE IF Head(a) # Head(b) THEN Head(a) < Head(b)
    ELSE lexLess(Tail(a), Tail(b))

(* dfCoefficients.sort_values("Predictors", ignore_index = True) *)
RECURSIVE sort_values(_)
sort_values(rows) ==
    IF rows = {} THEN <<>>
    ELSE LET first == CHOOSE r \in rows : \A o \in rows \ {r} :
                          lexLess(codePoints(r.Predictors), codePoints(o.Predictors))
         IN  <<first>> \o sort_values(rows \ {first})

(* The fitted coefficient table of a configuration with the given          *)
(* predictors, as Logistic_Regression_Model.py saves it                    *)
dfCoefficients(predictorCodenames) ==
    sort_values({[Predictors |-> predictors(code), Predictor_Codes |-> code] :
                    code \in predictorCodenames})

(* The percent changes of the answers i, i + 1, ... that are appended: the *)
(* answers for the predictors whose name is in the column Predictors       *)
RECURSIVE customPredictors(_, _, _)
customPredictors(i, answers, table) ==
    IF i > Len(predictorList) THEN <<>>
    ELSE (IF \E r \in 1..Len(table) : table[r].Predictors = predictorList[i]
          THEN <<answers[i]>> ELSE <<>>)
         \o customPredictors(i + 1, answers, table)

InitScenario ==
    /\ pc = "Scenario"
    /\ \E predictorCodenames \in SUBSET Range(predictorCodeList) :
          /\ predictorCodenames # {}
          /\ dfCoefficientsFull = dfCoefficients(predictorCodenames)
    /\ percent \in [1..Len(predictorList) -> scenarioChanges]
    /\ coefficientChangesFull = <<>>
    /\ dfCoeffs = <<>>
    /\ g = 1
    /\ ConstYesNo = "Y" /\ NeighYesNo = "Y"
    /\ neighborhoodSize = 1
    /\ gridCellsChanged = 1
    /\ Wind_Turb = [c \in Cells |-> "N"]
    /\ constraintYesOrNo = defaultConstraints
    /\ preparedSurface = [c \in Cells |-> clearRow]
    /\ Constraint = [c \in Cells |-> 1]
    /\ Neighborhood = [c \in Cells |-> None]
    /\ dfArray = [c \in Cells |-> 0]
    /\ interceptList = [k \in 1..NumConfigs |-> FittedIntercept(k)]
    /\ f = 1
    /\ count = 0
    /\ Coeff_Change = 0
    /\ Probab = [c \in Cells |-> None]
    /\ Probab_f = [c \in Cells |-> None]
    /\ Wind_Turb_Fut = [c \in Cells |-> "N"]
    /\ Neighb_Update = [c \in Cells |-> None]
    /\ abortScript = FALSE
    /\ CountNull = [k \in 1..Len(classes) |-> {}]
    /\ Count = [k \in 1..Len(classes) |-> {}]
    /\ qadiIndex = None

(* The user's answers, appended to the list of the configuration *)
customScenario ==
    /\ pc = "Scenario"
    /\ coefficientChangesFull' = customPredictors(1, percent, dfCoefficientsFull)
    /\ pc' = "Changes"
    /\ UNCHANGED <<inputs, interceptList, g, f, count, Coeff_Change, dfCoeffs,
                   Probab, Probab_f, Wind_Turb_Fut, Neighb_Update, abortScript,
                   tables, dfCoefficientsFull, percent>>

(* The columns "Predictors" and "Coeff_Change_(%)" of dfCoeffs: a column    *)
(* of another length than the first raises ValueError                      *)
coefficientColumns ==
    /\ pc = "Changes"
    /\ IF Len(coefficientChangesFull) # Len(dfCoefficientsFull)
       THEN pc' = "ValueError" /\ UNCHANGED dfCoeffs
       ELSE /\ dfCoeffs' = [i \in 1..Len(dfCoefficientsFull) |->
                               [Predictors |-> dfCoefficientsFull[i].Predictor_Codes,
                                Coeff_Change |-> coefficientChangesFull[i]]]
            /\ pc' = "Columns"
    /\ UNCHANGED <<inputs, interceptList, g, f, count, Coeff_Change,
                   Probab, Probab_f, Wind_Turb_Fut, Neighb_Update, abortScript,
                   tables, scenario>>

ScenarioSpec == InitScenario /\ [][customScenario \/ coefficientColumns]_vars

---------------------------------------------------------------------------
(* Vocabulary of the properties *)

(* The run of configuration g is under way or has ended *)
InRun == pc \in {"Stepping", "TerminatedEarly", "Completed", "Crashed"}


(* The eligible cells that have no wind farm yet *)
EligiblePool == {c \in Cells : Wind_Turb_Fut[c] = "N" /\ Constraint[c] = 1}

(* The cells a step converts: without a wind farm before, labelled with   *)
(* the step's year after                                                   *)
Gained == {c \in Cells : Wind_Turb_Fut[c] = "N" /\ Wind_Turb_Fut'[c] = Label(f)}

(* The cells whose entry in Wind_Turb_Fut a step changes *)
Changed == {c \in Cells : Wind_Turb_Fut'[c] # Wind_Turb_Fut[c]}

(* The eligible cells without a wind farm whose score in this step is     *)
(* greater than 0                                                          *)
PositivePool == {c \in EligiblePool : Probab_f'[c].num > 0}

---------------------------------------------------------------------------
(* C1: within the run of one configuration, a cell that holds "Y" (a wind *)
(* farm that existed before the run) or "Y (year)" keeps exactly that      *)
(* entry in every later step: it never goes back to "N" and its year is    *)
(* never replaced.                                                         *)
C1_MonotonicConversion ==
    [][pc # "Start" =>
         \A c \in Cells :
            HasFarm(Wind_Turb_Fut[c]) => Wind_Turb_Fut'[c] = Wind_Turb_Fut[c]]_vars

(* A run in which a cell converted in 2025 and an existing wind farm are  *)
(* still there after a later step converted another cell                  *)
C1_Witness ==
    /\ pc = "Stepping" /\ f = 3
    /\ \E a, b, c \in Cells :
          /\ Wind_Turb_Fut[a] = "Y"
          /\ Wind_Turb_Fut[b] = Label(1)
          /\ Wind_Turb_Fut[c] = Label(2)

---------------------------------------------------------------------------
(* C2 as stated: with the constraints on, a step that starts with at      *)
(* least gridCellsChanged eligible cells without a wind farm converts      *)
(* exactly gridCellsChanged cells, with the neighborhood effects on or off *)
(* and whatever the order of equal scores.                                 *)
C2_QuotaMet_AsStated ==
    [][(pc = "Stepping" /\ ConstYesNo = "N"
          /\ Cardinality(EligiblePool) >= gridCellsChanged)
       => (Cardinality(Gained) = gridCellsChanged /\ Changed = Gained)]_vars

(* C2 amended: with the constraints on, a step that starts with at least  *)
(* gridCellsChanged eligible cells without a wind farm whose score in that *)
(* step is greater than 0 converts exactly gridCellsChanged cells from "N" *)
(* to the step's year, whatever the order of equal scores.                 *)
C2_QuotaMet ==
    [][(pc = "Stepping" /\ ConstYesNo = "N"
          /\ Cardinality(PositivePool) >= gridCellsChanged)
       => (Cardinality(Gained) = gridCellsChanged /\ Changed = Gained)]_vars

(* After the 2030 step of a run with constraints and neighborhood effects *)
(* on: the step converted exactly gridCellsChanged cells, while another    *)
(* cell without a wind farm violates a constraint                          *)
C2_Witness ==
    /\ pc = "Stepping" /\ f = 3
    /\ ConstYesNo = "N" /\ NeighYesNo = "N"
    /\ Cardinality({c \in Cells : Wind_Turb_Fut[c] = Label(2)}) = gridCellsChanged
    /\ \E c \in Cells : Wind_Turb_Fut[c] = "N" /\ Constraint[c] = 0

---------------------------------------------------------------------------
(* The eligible cells that had no wind farm when step t began (t a step   *)
(* of the current run that has begun)                                      *)
PoolAtStart(t) ==
    {c \in Cells :
        /\ Constraint[c] = 1
        /\ \/ Wind_Turb_Fut[c] = "N"
           \/ \E u \in t..Len(timeSteps) : Wind_Turb_Fut[c] = Label(u)}

(* An earlier step of the current run began with fewer than               *)
(* gridCellsChanged eligible cells without a wind farm                     *)
ExhaustedBefore ==
    \E t \in 1..(f - 1) : Cardinality(PoolAtStart(t)) < gridCellsChanged

---------------------------------------------------------------------------
---------------------------------------------------------------------------
(* C5: with the constraints switched off, every step converts exactly     *)
(* min(gridCellsChanged, number of cells without a wind farm) cells, all   *)
(* of them cells without a wind farm, whatever their Constraint entry, and *)
(* the run never terminates early.                                         *)
C5_ConstraintsOff ==
    [][(pc = "Stepping" /\ ConstYesNo = "Y")
       => /\ Changed = Gained
          /\ Cardinality(Gained) =
                Min(gridCellsChanged, Cardinality(noFarm(Wind_Turb_Fut)))
          /\ pc' # "TerminatedEarly"]_vars

(* A completed run with the constraints switched off, one conversion in   *)
(* each of 2025, 2030 and 2035, the last one a cell that violates a        *)
(* constraint                                                              *)
C5_Witness ==
    /\ pc = "Completed" /\ f = Len(timeSteps)
    /\ ConstYesNo = "Y" /\ gridCellsChanged = 1
    /\ \A t \in 1..3 : \E c \in Cells : Wind_Turb_Fut[c] = Label(t)
    /\ \E c \in Cells : Wind_Turb_Fut[c] = Label(3) /\ Constraint[c] = 0

---------------------------------------------------------------------------
(* C6: with the constraints on, no cell whose Constraint entry is 0 is    *)
(* ever converted, in any step of any configuration's run.                 *)
C6_NoConstrainedConversion ==
    ConstYesNo = "N" =>
        \A c \in Cells : Constraint[c] = 0 => Wind_Turb_Fut[c] \notin Labels

(* A run with the constraints on that ended in 2030: cells were converted *)
(* and a cell violating a constraint still has no wind farm                *)
C6_Witness ==
    /\ pc = "TerminatedEarly" /\ f = 2 /\ ConstYesNo = "N"
    /\ \E c \in Cells : Wind_Turb_Fut[c] \in Labels
    /\ \E c \in Cells : Constraint[c] = 0 /\ Wind_Turb_Fut[c] = "N"

---------------------------------------------------------------------------
(* C7: in every step, no cell without a wind farm that the step leaves    *)
(* unconverted has a score strictly greater than the score of a cell the   *)
(* step converts.                                                          *)
C7_HighestScoresFirst ==
    [][pc = "Stepping" =>
         \A c, d \in Cells :
            (/\ Wind_Turb_Fut[c] = "N" /\ Wind_Turb_Fut'[c] = "N"
             /\ d \in Gained)
            => ~Less(Probab_f'[d], Probab_f'[c])]_vars

(* After the 2025 step: the step converted a cell and left a cell with a  *)
(* strictly smaller, positive score unconverted                            *)
C7_Witness ==
    /\ pc = "Stepping" /\ f = 2
    /\ \E c, d \in Cells :
          /\ Wind_Turb_Fut[d] = Label(1)
          /\ Wind_Turb_Fut[c] = "N"
          /\ Probab_f[c].num > 0
          /\ Less(Probab_f[c], Probab_f[d])

---------------------------------------------------------------------------
(* Vocabulary of the score properties *)

(* The first iteration in a study area with fewer than two wind farms *)
ColdStart == timeSteps[f] = "2025" /\ count < 2

(* The neighborhood effect factor a step reads for cell c: the field      *)
(* Neighborhood in 2025, the field Neighb_Update afterwards                *)
FactorRead(c) == IF timeSteps[f] = "2025" THEN Neighborhood[c] ELSE Neighb_Update[c]

(* The factor of cell c by its definition: the share of the other cells   *)
(* within the search distance that contain a wind farm, 0 without any      *)
FactorOf(c) ==
    LET others == SelectLayerByLocation(Cells, c) \ {c}
    IN  IF others = {} THEN Zero
        ELSE Frac(Cardinality({d \in others : HasFarm(Wind_Turb_Fut[d])}),
                  Cardinality(others))

Eligibility(c) == Frac(Constraint[c], 1)

---------------------------------------------------------------------------
(* C8 as stated: with constraints and neighborhood effects both on, the   *)
(* score of every cell is its probability alone.                           *)
C8_BothOn_AsStated ==
    [][(pc = "Stepping" /\ ConstYesNo = "N" /\ NeighYesNo = "N")
       => \A c \in Cells : Probab_f'[c] = Probab'[c]]_vars

(* C8 amended: with constraints and neighborhood effects both on, the     *)
(* score of every cell is eligibility * neighborhood factor * probability; *)
(* in the first step of a study area with fewer than two wind farms it is  *)
(* eligibility * probability.                                              *)
C8_BothOn ==
    [][(pc = "Stepping" /\ ConstYesNo = "N" /\ NeighYesNo = "N")
       => \A c \in Cells :
            Probab_f'[c] =
               IF ColdStart THEN Times(Eligibility(c), Probab'[c])
               ELSE Times(Times(Eligibility(c), FactorRead(c)), Probab'[c])]_vars

(* After a later step of a run with both on: an eligible cell whose score *)
(* is positive and smaller than its probability                            *)
C8_Witness ==
    /\ pc = "Stepping" /\ f = 3
    /\ ConstYesNo = "N" /\ NeighYesNo = "N"
    /\ \E c \in Cells :
          /\ Constraint[c] = 1
          /\ Probab_f[c].num > 0
          /\ Less(Probab_f[c], Probab[c])

---------------------------------------------------------------------------
(* C9 as stated: with constraints and neighborhood effects both switched  *)
(* off, the score of every cell is eligibility * neighborhood factor *     *)
(* probability.                                                            *)
C9_BothOff_AsStated ==
    [][(pc = "Stepping" /\ ConstYesNo = "Y" /\ NeighYesNo = "Y")
       => \A c \in Cells :
            Probab_f'[c] = Times(Times(Eligibility(c), FactorOf(c)), Probab'[c])]_vars

(* C9 amended: with constraints and neighborhood effects both switched    *)
(* off, the score of every cell is its probability alone.                  *)
C9_BothOff ==
    [][(pc = "Stepping" /\ ConstYesNo = "Y" /\ NeighYesNo = "Y")
       => \A c \in Cells : Probab_f'[c] = Probab'[c]]_vars

(* After a step of a run with both off: a cell that violates a constraint *)
(* and has no wind farm within the search distance holds its probability   *)
(* as score                                                                *)
C9_Witness ==
    /\ pc = "Stepping" /\ f = 2
    /\ ConstYesNo = "Y" /\ NeighYesNo = "Y"
    /\ \E c \in Cells :
          /\ Constraint[c] = 0
          /\ FactorOf(c) = Zero
          /\ Probab_f[c] = Probab[c]
          /\ Probab_f[c].num > 0

---------------------------------------------------------------------------
(* C10: with only the constraints on, the score of every cell is          *)
(* eligibility * probability; with only the neighborhood effects on it is  *)
(* neighborhood factor * probability, except in the first step of a study  *)
(* area with fewer than two wind farms.                                    *)
C10_OneOn ==
    [][/\ (pc = "Stepping" /\ ConstYesNo = "N" /\ NeighYesNo = "Y")
          => \A c \in Cells : Probab_f'[c] = Times(Eligibility(c), Probab'[c])
       /\ (pc = "Stepping" /\ ConstYesNo = "Y" /\ NeighYesNo = "N" /\ ~ColdStart)
          => \A c \in Cells : Probab_f'[c] = Times(FactorRead(c), Probab'[c])]_vars

(* After a later step of a run with only the neighborhood effects on: a   *)
(* cell that violates a constraint has a positive score smaller than its   *)
(* probability                                                             *)
C10_Witness ==
    /\ pc = "Stepping" /\ f = 3
    /\ ConstYesNo = "Y" /\ NeighYesNo = "N"
    /\ \E c \in Cells :
          /\ Constraint[c] = 0
          /\ Probab_f[c].num > 0
          /\ Less(Probab_f[c], Probab[c])

---------------------------------------------------------------------------
(* C11: in every step and with every combination of the two switches, the *)
(* score written for every cell lies between 0 and 1.                      *)
C11_ScoreBounds ==
    \A c \in Cells :
        Probab_f[c] # None =>
            (0 <= Probab_f[c].num /\ Probab_f[c].num <= Probab_f[c].den)

(* After a later step with constraints and neighborhood effects on: one   *)
(* cell has score 0 and another a score strictly between 0 and 1          *)
C11_Witness ==
    /\ pc = "Stepping" /\ f = 3
    /\ ConstYesNo = "N" /\ NeighYesNo = "N"
    /\ \E c, d \in Cells :
          /\ Probab_f[c] = Zero
          /\ Probab_f[d].num > 0 /\ Probab_f[d].num < Probab_f[d].den

---------------------------------------------------------------------------
(* C12: with the neighborhood effects on and fewer than two existing wind *)
(* farms, the score of the 2025 step leaves the neighborhood effect factor *)
(* out (probability, times eligibility with the constraints on); the score *)
(* of every later step includes the updated factor.                        *)
C12_ColdStart ==
    [][(pc = "Stepping" /\ NeighYesNo = "N" /\ count < 2)
       => \A c \in Cells :
            Probab_f'[c] =
               LET base == IF ConstYesNo = "Y" THEN Probab'[c]
                           ELSE Times(Eligibility(c), Probab'[c])
               IN  IF timeSteps[f] = "2025" THEN base
                   ELSE Times(Neighb_Update[c], base)]_vars

(* After the 2025 step of a run with the neighborhood effects on and one  *)
(* existing wind farm: a cell next to no wind farm, whose factor is 0,     *)
(* holds its probability as score, and a cell was converted                *)
C12_Witness ==
    /\ pc = "Stepping" /\ f = 2
    /\ NeighYesNo = "N" /\ ConstYesNo = "Y" /\ count = 1
    /\ \E c, d \in Cells :
          /\ Neighborhood[c] = Zero
          /\ Probab_f[c] = Probab[c]
          /\ Wind_Turb_Fut[d] = Label(1)

---------------------------------------------------------------------------
(* The other cells within the search distance of cell c *)
OtherCellsNear(c) ==
    {d \in Cells \ {c} : Abs(Pos(d) - Pos(c)) <= neighborhoodSize}

(* C13: before the first step, the factor of every cell is the number of  *)
(* other cells within the search distance that contain an existing wind    *)
(* farm, divided by the number of other cells within the search distance;  *)
(* the cell itself is counted in neither, and the factor is 0 when no      *)
(* other cell lies within the search distance.                             *)
C13_InitialFactor ==
    NeighYesNo = "N" =>
        \A c \in Cells :
            LET total == Cardinality(OtherCellsNear(c))
                farms == Cardinality({d \in OtherCellsNear(c) : Wind_Turb[d] = "Y"})
            IN  IF total = 0 THEN Neighborhood[c] = Zero
                ELSE /\ Neighborhood[c].den > 0
                     /\ Neighborhood[c].num * total = farms * Neighborhood[c].den

(* Before the 2025 step: a cell that contains a wind farm itself and has *)
(* one neighbor, without a wind farm, has the factor 0; that neighbor has  *)
(* the factor 1; another cell has no neighbor and the factor 0             *)
C13_Witness ==
    /\ pc = "Stepping" /\ f = 1 /\ NeighYesNo = "N"
    /\ \E c, d, e \in Cells :
          /\ Wind_Turb[c] = "Y" /\ Wind_Turb[e] = "N"
          /\ OtherCellsNear(c) = {e}
          /\ Neighborhood[c] = Zero
          /\ Neighborhood[e] = [num |-> 1, den |-> 1]
          /\ OtherCellsNear(d) = {}
          /\ Neighborhood[d] = Zero

---------------------------------------------------------------------------
(* C14: the computation of a neighborhood effect factor never raises a    *)
(* division error: the program never stops in a neighborhood update, and   *)
(* the factor of a cell with no other cell within the search distance is   *)
(* 0, before the first step and after every update.                        *)
C14_NoDivisionError ==
    /\ pc # "Crashed"
    /\ NeighYesNo = "N" =>
          \A c \in Cells :
             OtherCellsNear(c) = {} =>
                (Neighborhood[c] = Zero /\ Neighb_Update[c] \in {None, Zero})

---------------------------------------------------------------------------
(* The cells within the search distance of a cell that step t converted,  *)
(* the converted cells included                                            *)
NearConverted(t) ==
    UNION {SelectLayerByLocation(Cells, d) :
              d \in {e \in Cells : Wind_Turb_Fut[e] = Label(t)}}

(* C15: after the update that follows a step, every cell within the       *)
(* search distance of a cell converted in that step has the factor         *)
(* (cells with a wind farm, existing or projected, among all other cells   *)
(* of the grid within its search distance) / (number of those cells), also *)
(* when it lies near several converted cells.                              *)
C15_UpdatedFactor ==
    (pc = "Stepping" /\ f >= 2 /\ NeighYesNo = "N") =>
        \A c \in NearConverted(f - 1) : Neighb_Update[c] = FactorOf(c)

---------------------------------------------------------------------------
(* C16: the update that follows a step leaves the factor of every cell    *)
(* that is not within the search distance of a cell converted in that step *)
(* as it was: the initial factor in 2025, the value of Neighb_Update       *)
(* afterwards.                                                             *)
C16_UntouchedFactor ==
    [][(pc = "Stepping" /\ NeighYesNo = "N" /\ timeSteps[f] # "2050"
          /\ pc' # "Crashed")
       => \A c \in Cells :
            (\A d \in Gained : c \notin SelectLayerByLocation(Cells, d))
            => Neighb_Update'[c] = FactorRead(c)]_vars

(* After the 2030 step, which converted a cell: a cell outside the search *)
(* distance of every cell converted in 2030 has a factor greater than 0    *)
C16_Witness ==
    /\ pc = "Stepping" /\ f = 3 /\ NeighYesNo = "N"
    /\ NearConverted(2) # {}
    /\ \E c \in Cells \ NearConverted(2) : Neighb_Update[c].num > 0

---------------------------------------------------------------------------
(* C17: for a predictor with a change greater than 0, every column is the *)
(* previous column plus its absolute value times the change / 100,         *)
(* compounding on the previous column; from -5 with a change of 10 the     *)
(* next columns are -4.5, -4.05 and -3.645.                                *)
C17_PositiveChange ==
    (pc = "Coefficients" /\ Coeff_Change > 0) =>
        /\ \A t \in 2..Len(dfCoeffs) :
              100 * dfCoeffs[t] =
                 100 * dfCoeffs[t - 1] + Abs(dfCoeffs[t - 1]) * Coeff_Change
        /\ (dfCoeffs[1] = (0 - 5) * CoefMillionth /\ Coeff_Change = 10
              /\ Len(dfCoeffs) >= 4)
           => (dfCoeffs[2] = 0 - 4500000 /\ dfCoeffs[3] = 0 - 4050000
                 /\ dfCoeffs[4] = 0 - 3645000)

(* The columns up to Coeff_2035 of a predictor fitted with -5 and changed *)
(* by 10 percent                                                           *)
C17_Witness ==
    /\ pc = "Coefficients" /\ Coeff_Change = 10
    /\ dfCoeffs = <<0 - 5000000, 0 - 4500000, 0 - 4050000, 0 - 3645000>>

---------------------------------------------------------------------------
(* C18 as stated: for a predictor with a change less than 0, every column *)
(* is the previous column minus its absolute value times the change / 100, *)
(* the change being the signed, negative percent.                          *)
C18_NegativeChange_AsStated ==
    (pc = "Coefficients" /\ Coeff_Change < 0) =>
        \A t \in 2..Len(dfCoeffs) :
            100 * dfCoeffs[t] =
               100 * dfCoeffs[t - 1] - Abs(dfCoeffs[t - 1]) * Coeff_Change

(* C18 amended: for a predictor with a change less than 0, every column   *)
(* is the previous column minus its absolute value times the absolute      *)
(* value of the change / 100.                                              *)
C18_NegativeChange ==
    (pc = "Coefficients" /\ Coeff_Change < 0) =>
        \A t \in 2..Len(dfCoeffs) :
            100 * dfCoeffs[t] =
               100 * dfCoeffs[t - 1] - Abs(dfCoeffs[t - 1]) * Abs(Coeff_Change)

(* The columns up to Coeff_2030 of a predictor fitted with 5 and of one   *)
(* fitted with -5, changed by -10 percent: 4.5, 4.05 and -5.5, -6.05       *)
C18_Witness ==
    /\ pc = "Coefficients" /\ Coeff_Change = 0 - 10
    /\ dfCoeffs \in {<<5000000, 4500000, 4050000>>,
                      <<0 - 5000000, 0 - 5500000, 0 - 6050000>>}

---------------------------------------------------------------------------
(* C19: the direction of the change of a coefficient follows the sign of  *)
(* the percent change, whatever the sign of the coefficient: no change     *)
(* leaves every column equal to the fitted coefficient, a change greater   *)
(* than 0 never lowers a column below the previous one, a change less than *)
(* 0 never raises it above.                                                *)
C19_Direction ==
    pc = "Coefficients" =>
        \A t \in 2..Len(dfCoeffs) :
            /\ Coeff_Change = 0 => dfCoeffs[t] = dfCoeffs[1]
            /\ Coeff_Change > 0 => dfCoeffs[t] >= dfCoeffs[t - 1]
            /\ Coeff_Change < 0 => dfCoeffs[t] <= dfCoeffs[t - 1]

(* All seven columns of a predictor with a negative fitted coefficient:   *)
(* strictly rising with a change greater than 0, strictly falling with a   *)
(* change less than 0, constant without a change                           *)
C19_Witness ==
    /\ pc = "Coefficients" /\ Len(dfCoeffs) = Len(timeSteps) + 1
    /\ dfCoeffs[1] < 0
    /\ \/ Coeff_Change > 0 /\ \A t \in 2..Len(dfCoeffs) : dfCoeffs[t] > dfCoeffs[t - 1]
       \/ Coeff_Change < 0 /\ \A t \in 2..Len(dfCoeffs) : dfCoeffs[t] < dfCoeffs[t - 1]
       \/ Coeff_Change = 0 /\ \A t \in 2..Len(dfCoeffs) : dfCoeffs[t] = dfCoeffs[1]

---------------------------------------------------------------------------
(* C20: in every step of the run of every configuration but the Null      *)
(* configuration, the probability of every cell is computed with the       *)
(* intercept fitted for that configuration; the coefficient changes of the *)
(* scenario leave the intercepts as they are.                              *)
C20_Intercept ==
    [][/\ (pc = "Stepping" /\ g >= 1)
          => \A c \in Cells :
                Probab'[c] = prob(FittedIntercept(g), dfCoeffs[f + 1], dfArray[c], g)
       /\ pc # "Start" => interceptList' = interceptList]_vars

(* After the 2030 step of the second configuration: a cell whose          *)
(* predictor is 0 has the probability of that configuration's intercept,   *)
(* which differs from the one the first configuration's intercept gives    *)
C20_Witness ==
    /\ pc = "Stepping" /\ g = 2 /\ f = 3
    /\ \E c \in Cells :
          /\ dfArray[c] = 0
          /\ Probab[c] = Logistic(FittedIntercept(2) * CoefUnit)
          /\ Probab[c] # Logistic(FittedIntercept(1) * CoefUnit)

---------------------------------------------------------------------------
(* A row fails the constraint on the airport distance, the minimum or the *)
(* maximum road distance, the military bases                               *)
FailsAirport(row) == row.Near_Air <= airportConstraint_Value
FailsRoadMin(row) == row.Near_Roads <= roadMinConstraint_Value
FailsRoadMax(row) == row.Near_Roads >= roadMaxConstraint_Value
FailsMilitary(row) == row.Military = "Y"

---------------------------------------------------------------------------
(* The disagreement table *)

(* A disagreement table with its index has been made *)
TableMade == qadiIndex # None

(* The numbers of grid cells the Null configuration and the current       *)
(* configuration put in the k-th classification, and in it both           *)
rowTotal(k) == Cardinality(CountNull[k])
colTotal(k) == Cardinality(Count[k])
diag(k) == Cardinality(CountNull[k] \cap Count[k])

(* The disagreements of the table with the rows rows, before and after   *)
(* the adjustment                                                         *)
tableQ(rows) == quantDis(bottomRow(rows), transList(listOfLists(rows)))
tableQStar(rows) == quantDisStar(transList(listOfLists(rows)))
tableA(rows) == absoDis(bottomRow(rows), transList(listOfLists(rows)))
reportedQ(rows) == qFinal(tableQ(rows), tableQStar(rows))
reportedA(rows) == aFinal(tableA(rows), tableQ(rows), tableQStar(rows))

(* C22: the quantity disagreement of a disagreement table is half the sum, *)
(* over the seven classifications, of the absolute difference between the  *)
(* number of grid cells of the Null configuration and the number of grid   *)
(* cells of the current configuration in that classification.              *)
C22_QuantityDisagreement ==
    TableMade =>
        \A rows \in {listRows(CountNull, Count)} :
            2 * tableQ(rows) =
                sumTo([k \in 1..Len(classes) |-> Abs(rowTotal(k) - colTotal(k))],
                      Len(classes))

(* C23: for every disagreement table the check value Q* equals the         *)
(* quantity disagreement Q, so that the adjustment for Q # Q* is never     *)
(* made.                                                                   *)
C23_CheckValueAgrees ==
    TableMade =>
        \A rows \in {listRows(CountNull, Count)} :
            tableQStar(rows) = tableQ(rows)

(* C24: the allocation disagreement, before any adjustment, is the sum     *)
(* over the seven classifications of the smaller of the two off-diagonal   *)
(* counts of that classification, the Null configuration's and the current *)
(* configuration's.                                                        *)
C24_AllocationDisagreement ==
    TableMade =>
        \A rows \in {listRows(CountNull, Count)} :
            tableA(rows) =
                sumTo([k \in 1..Len(classes) |->
                          Min(rowTotal(k) - diag(k), colTotal(k) - diag(k))],
                      Len(classes))

(* C25: when the current configuration classifies every grid cell as the  *)
(* Null configuration does, the reported quantity and allocation           *)
(* disagreements are 0 and so is the index.                                *)
C25_IdenticalClassification ==
    (TableMade /\ Count = CountNull) =>
        \A rows \in {listRows(CountNull, Count)} :
            /\ reportedQ(rows) = 0
            /\ reportedA(rows) = 0
            /\ qadiIndex = Zero

(* Both configurations gave the same grid cells a wind farm in the same    *)
(* iterations, and at least one grid cell gained one                       *)
C25_Witness ==
    /\ TableMade
    /\ Count = CountNull
    /\ \E k \in 2..Len(classes) : Count[k] # {}

(* C26: the index of every disagreement table with a positive total lies   *)
(* between 0 and the square root of 2, that is, the reported values        *)
(* satisfy A * A + Q * Q <= 2 * T * T, also when A has been raised by       *)
(* |Q - Q*| and Q replaced by Q*.                                          *)
C26_IndexBounds ==
    TableMade =>
        \A rows \in {listRows(CountNull, Count)} :
            /\ reportedA(rows) * reportedA(rows) + reportedQ(rows) * reportedQ(rows)
                   <= 2 * totalCells(rows) * totalCells(rows)
            /\ 0 <= qadiIndex.num
            /\ qadiIndex.num <= 2 * qadiIndex.den

(* The adjustment has been made: Q and Q* differ and A has been raised *)
C26_Witness ==
    /\ TableMade
    /\ \E rows \in {listRows(CountNull, Count)} :
          /\ tableQ(rows) # tableQStar(rows)
          /\ reportedA(rows) > tableA(rows)
          /\ reportedQ(rows) = tableQStar(rows)

(* The disagreement table of the current configuration has been built,    *)
(* with or without its index                                               *)
TableBuilt == TableMade \/ pc = "NoIndex"

(* C27, as stated: the total of the disagreement table is the number of    *)
(* grid cells of the grid, also when some grid cells held a wind farm      *)
(* before the run.                                                         *)
C27_GrandTotal_AsStated ==
    TableBuilt =>
        \A rows \in {listRows(CountNull, Count)} :
            totalCells(rows) = Cardinality(Cells)

(* C27: every grid cell without a wind farm before the run is counted in   *)
(* exactly one entry of the disagreement table and a grid cell that held   *)
(* one in none, so that the total of the table is the number of grid       *)
(* cells without a wind farm before the run.                               *)
C27_GrandTotal ==
    TableBuilt =>
        \A rows \in {listRows(CountNull, Count)} :
            /\ totalCells(rows) = Cardinality({c \in Cells : Wind_Turb[c] = "N"})
            /\ \A c \in Cells :
                  Cardinality({ij \in (1..Len(classes)) \X (1..Len(classes)) :
                                  c \in CountNull[ij[1]] /\ c \in Count[ij[2]]})
                      = IF Wind_Turb[c] = "N" THEN 1 ELSE 0
            /\ \A i, j \in 1..Len(classes) :
                  rows[i][j] = Cardinality(CountNull[i] \cap Count[j])

(* A table of a grid with a wind farm before the run and a grid cell that  *)
(* gained one                                                              *)
C27_Witness ==
    /\ TableMade
    /\ \E c \in Cells : Wind_Turb[c] = "Y"
    /\ \E k \in 2..Len(classes) : Count[k] # {}

---------------------------------------------------------------------------
(* Independence of the configurations *)

(* The first iteration of the run of configuration g is about to begin *)
RunStarts == pc = "Stepping" /\ f = 1

(* C28: the run of every configuration, the Null configuration included,   *)
(* starts from the wind farms that existed before the run and from the     *)
(* initial neighborhood effect factors: nothing an earlier run converted   *)
(* or updated is left.                                                     *)
C28_SameStart ==
    RunStarts =>
        /\ Wind_Turb_Fut = Wind_Turb
        /\ count = Cardinality({c \in Cells : Wind_Turb[c] = "Y"})
        /\ Neighb_Update = [c \in Cells |-> None]
        /\ Neighborhood =
              IF NeighYesNo = "N"
              THEN [c \in Cells |->
                       neighborhoodEffect(c, Wind_Turb, neighborhoodSize)]
              ELSE [c \in Cells |-> None]
        /\ Constraint = [c \in Cells |->
                            constrainedRow(preparedSurface[c], constraintYesOrNo)]
        /\ abortScript = FALSE
        /\ dfCoeffs = CoeffColumns(coefficientList(g), coeffChangeList(g),
                                   Len(timeSteps))

(* The run of a later configuration starts after a run that gave grid      *)
(* cells a wind farm in "2025" and "2030" and updated the factors          *)
C28_Witness ==
    /\ RunStarts
    /\ g >= 1
    /\ NeighYesNo = "N"
    /\ CountNull[2] # {}
    /\ CountNull[3] # {}

---------------------------------------------------------------------------
(* The CUSTOM scenario *)

(* C29: in a CUSTOM scenario every coefficient of the configuration gets    *)
(* exactly one percent change, and the percent change of the coefficient   *)
(* of a predictor is the one the user entered for that predictor, whatever *)
(* the order of the rows of the fitted coefficient table.                  *)
C29_CustomChanges ==
    /\ pc # "ValueError"
    /\ pc = "Columns" =>
          \A i \in 1..Len(dfCoeffs) : \A k \in 1..Len(predictorCodeList) :
              predictorCodeList[k] = dfCoeffs[i].Predictors
                  => dfCoeffs[i].Coeff_Change = percent[k]

(* Steps of the current run that have acted *)
stepsDone == IF pc = "Stepping" THEN f - 1 ELSE f

(* The cells that step t of the current run converted *)
convertedIn(t) == {c \in Cells : Wind_Turb_Fut[c] = Label(t)}

(* C30: in every mode, no step converts more than gridCellsChanged cells:  *)
(* no label of a time step is on more than gridCellsChanged cells, after   *)
(* t steps of a run at most t * gridCellsChanged cells carry a label, and  *)
(* every labelled cell had no wind farm when the run started               *)
C30_QuotaCap ==
    /\ \A t \in 1..Len(timeSteps) : Cardinality(convertedIn(t)) <= gridCellsChanged
    /\ InRun =>
          /\ Cardinality({c \in Cells : Wind_Turb_Fut[c] \in Labels})
                 <= stepsDone * gridCellsChanged
          /\ \A t \in (stepsDone + 1)..Len(timeSteps) : convertedIn(t) = {}
    /\ \A c \in Cells : Wind_Turb_Fut[c] \in Labels => Wind_Turb[c] = "N"

(* Two steps of a run with the constraints on and the neighborhood        *)
(* effects on have converted gridCellsChanged cells between them, the     *)
(* first as many as the quota allows                                      *)
C30_Witness ==
    /\ pc = "Stepping" /\ f = 3
    /\ ConstYesNo = "N" /\ NeighYesNo = "N"
    /\ gridCellsChanged = 2
    /\ Cardinality(convertedIn(1)) = 2
    /\ Cardinality(convertedIn(2)) = 1

====
